---- MODULE Spec2Model ----
(***************************************************************************)
(* Model of visasq_scraper.py: one run of main() is a sequence of steps    *)
(* (load ledger, fetch listing with retries, extract, sitemap fallback     *)
(* with per-item detail fetches and crawl delay, match, notify, persist),  *)
(* and runs follow each other as separate processes sharing only the       *)
(* persisted ledger file state/seen_ids.json.                              *)
(*                                                                         *)
(* Text is modelled as sequences of Unicode code points.                   *)
(***************************************************************************)
EXTENDS Integers, Sequences, FiniteSets, TLC

VARIABLES
    pc,             \* position inside main(), or "m_ready"/"m_done" for the matcher harness
    FORCE_NOTIFY,   \* the toggle of this process, drawn when line 422 first tests it
    DRY_RUN,        \* the toggle of this process, drawn when line 428 tests it
    file,           \* state/seen_ids.json: [state, ids]
    seen,           \* main(): seen
    attempt,        \* fetch_html(): loop variable i (number of failed attempts so far)
    lastResp,       \* fetch_html(): resp after the loop
    backoff,        \* durations passed to time.sleep inside fetch_html
    items,          \* main(): items
    selected,       \* build_items_from_sitemap(): selected
    idx,            \* build_items_from_sitemap(): position in selected
    lastOutcome,    \* build_items_from_sitemap(): how the try body of the last entry ended
    lastEvent,      \* build_items_from_sitemap(): its last request or sleep so far
    matches,        \* main(): matches
    payload,        \* main(): payload
    output,         \* what happened to the payload: "none", "printed", "posted"
    postStatus,     \* status code of the webhook response, 0 when no POST completed
    failedAt,       \* where an uncaught exception ended the run, "" otherwise
    extractedEmpty, \* history: extract_items returned [] ("unknown" before extraction)
    fallbackCalled, \* history: build_items_from_sitemap was called in this run
    deduped,        \* history: ids of the items with a keyword that line 335 dropped
    fileAtStart,    \* history: the ledger file as it was when the run started
    loaded,         \* history: the ledger returned by load_seen_ids in this run
    runPersisted,   \* history: ids notified and saved by this run
    prevPersisted   \* history: ids notified and saved by the previous run

vars == <<pc, FORCE_NOTIFY, DRY_RUN, file, seen, attempt, lastResp, backoff, items,
          selected, idx, lastOutcome, lastEvent, matches, payload,
          output, postStatus, failedAt, extractedEmpty, fallbackCalled,
          deduped, fileAtStart, loaded, runPersisted, prevPersisted>>

----------------------------------------------------------------------------
(* Bounds *)

MaxId == 2          \* item identifiers are 1..MaxId
MaxItems == 2       \* anchors in a listing page
MaxSitemap == 2     \* url elements in the sitemap

Ids == 1..MaxId

----------------------------------------------------------------------------
(* Text: KEYWORDS and normalize_text *)

KEYWORDS ==
    << <<83, 69, 79>>,                                   \* SEO
       <<24195, 21578, 36939, 29992>>,                   \* U+5E83 U+544A U+904B U+7528
       <<83, 78, 83, 36939, 29992>>,                     \* SNS U+904B U+7528
       <<12502, 12521, 12531, 12487, 12451, 12531, 12464>>,          \* "branding" (katakana)
       <<26032, 35215, 20107, 26989>>,                   \* U+65B0 U+898F U+4E8B U+696D
       <<20225, 30011>>,
       <<12522, 12502, 12521, 12531, 12487, 12451, 12531, 12464>>,   \* "rebranding" (katakana)
       <<72, 80, 12522, 12491, 12517, 12540, 12450, 12523>>,         \* HP...
       <<12467, 12531, 12475, 12503, 12488, 12513, 12452, 12461, 12531, 12464>>,
       <<77, 86, 86, 38283, 30330>>,                     \* MVV...
       <<12525, 12468, 12487, 12470, 12452, 12531>>,
       <<86, 73, 38283, 30330>>,                         \* VI...
       <<12502, 12521, 12531, 12489, 25126, 30053>>,
       <<12502, 12521, 12531, 12489, 38283, 30330>>,
       <<21830, 21697, 38283, 30330>>,
       <<12452, 12505, 12531, 12488>>,
       <<23637, 31034, 20250>>,
       <<12509, 12483, 12503, 12450, 12483, 12503>>,
       <<80, 82>>,                                       \* PR
       <<12458, 12506, 12524, 12540, 12471, 12519, 12531>>,
       <<12487, 12470, 12452, 12531, 26989, 21209>>,
       <<32076, 21942, 35506, 38988>>,
       <<12498, 12450, 12522, 12531, 12464>>,
       <<35328, 35486, 21270>> >>

\* unicodedata.normalize("NFKC", c) for one code point: fullwidth ASCII
\* variants U+FF01..U+FF5E fold to U+0021..U+007E, the ideographic space
\* U+3000 folds to U+0020; the other code points used here are NFKC-stable.
NFKC(c) ==
    IF c >= 65281 /\ c <= 65374 THEN c - 65248
    ELSE IF c = 12288 THEN 32
    ELSE c

\* str.lower() for one code point (ASCII letters; kana and kanji are caseless)
Lower(c) == IF c >= 65 /\ c <= 90 THEN c + 32 ELSE c

normalize_text(s) == [i \in 1..Len(s) |-> Lower(NFKC(s[i]))]

\* Python's  k in text  on strings
Contains(text, k) ==
    \E off \in 0..(Len(text) - Len(k)) :
        \A j \in 1..Len(k) : text[off + j] = k[j]

\* lexicographic order of strings by code point (Python str comparison)
StrLess(a, b) ==
    \E n \in 0..Len(a) :
        /\ n <= Len(b)
        /\ \A j \in 1..n : a[j] = b[j]
        /\ \/ n = Len(a) /\ n < Len(b)
           \/ n < Len(a) /\ n < Len(b) /\ a[n + 1] < b[n + 1]

RECURSIVE sorted(_)
sorted(S) ==
    IF S = {} THEN <<>>
    ELSE LET m == CHOOSE x \in S : \A y \in S \ {x} : StrLess(x, y)
         IN  <<m>> \o sorted(S \ {m})

SeqRange(s) == {s[i] : i \in 1..Len(s)}

norm_keywords == [i \in 1..Len(KEYWORDS) |-> normalize_text(KEYWORDS[i])]

Space == <<32>>

\* f'{title} {description}'
text_for_match(it) == normalize_text(it.title \o Space \o it.description)

\* line 338
matched_of(it) ==
    sorted({k \in SeqRange(norm_keywords) : Contains(text_for_match(it), k)})

\* a plausible slip: show the normalized, sorted keywords themselves
display_matched_sorted(matched) == matched

\* lines 341-344
display_matched(matched) ==
    LET keep(orig) == normalize_text(orig) \in SeqRange(matched)
    IN  SelectSeq(KEYWORDS, keep)

WithKeywords(it, mk) ==
    [id |-> it.id, title |-> it.title, description |-> it.description,
     matched_keywords |-> mk]

RECURSIVE filter_new_and_match(_, _)
filter_new_and_match(its, seen_ids) ==
    IF its = <<>> THEN <<>>
    ELSE LET it == Head(its)
             rest == filter_new_and_match(Tail(its), seen_ids)
             matched == matched_of(it)
         IN  IF it.id \in seen_ids THEN rest
             ELSE IF matched # <<>>
                  THEN <<WithKeywords(it, display_matched(matched))>> \o rest
                  ELSE rest

----------------------------------------------------------------------------
(* Ledger file: load_seen_ids / save_seen_ids *)

\* file.state: "absent", "ok" (JSON object whose "seen_ids" is a list of ids),
\* or "malformed" (json.load or set(...) raises: truncated text, a non-object,
\* an unhashable element among the ids, an unreadable file).  file.ids are the
\* identifiers written in the file.
FileStates ==
    {[state |-> "absent", ids |-> {}]}
    \cup {[state |-> st, ids |-> S] : st \in {"ok", "malformed"}, S \in SUBSET Ids}

load_seen_ids(f) ==
    IF f.state = "ok" THEN f.ids ELSE {}

save_seen_ids(s) == [state |-> "ok", ids |-> s]

----------------------------------------------------------------------------
(* Listing page: fetch_html and extract_items *)

\* "SEO" U+652F U+63F4 U+306E U+65B0 U+898F U+4E8B U+696D U+7ACB U+3061 U+4E0A U+3052
TitleHit ==
    <<83, 69, 79, 25903, 25588, 12398, 26032, 35215, 20107, 26989,
      31435, 12385, 19978, 12370>>

\* U+7D4C U+7406 U+306E U+76F8 U+8AC7 : contains no keyword
TitleMiss == <<32076, 29702, 12398, 30456, 35527>>

\* One <a> of the page: the family of its href ("other" = an href the pattern
\* of line 110 rejects), the digits of the href, the text of the title <p>
\* and of the company-info <div>.
Anchors ==
    [family : {"issue", "direct_interview"},
     id : Ids,
     title : {TitleHit, TitleMiss},
     company : {<<>>}]
    \cup {[family |-> "other", id |-> 1, title |-> TitleMiss, company |-> <<>>]}

RECURSIVE SeqsUpTo(_, _)
SeqsUpTo(S, n) ==
    IF n = 0 THEN {<<>>}
    ELSE LET shorter == SeqsUpTo(S, n - 1)
         IN  shorter \cup {Append(q, x) : q \in {r \in shorter : Len(r) = n - 1}, x \in S}

\* resp.text: empty, or a document with its anchors in document order
NoText == [empty |-> TRUE, anchors |-> <<>>]
Documents == {[empty |-> FALSE, anchors |-> a] : a \in SeqsUpTo(Anchors, MaxItems)}
BarePage == [empty |-> FALSE, anchors |-> <<>>]

\* responses of requests.get(TARGET_URL): any document or no text with 200,
\* no text with 204, an anchor-less error page with 503
ListingResponses ==
    {[status |-> 200, body |-> b] : b \in Documents \cup {NoText}}
    \cup {[status |-> 204, body |-> NoText],
          [status |-> 503, body |-> BarePage]}

RECURSIVE extract_items(_)
extract_items(doc) ==
    IF doc = <<>> THEN <<>>
    ELSE LET a == Head(doc)
             rest == extract_items(Tail(doc))
             description == a.company
         IN  IF a.family \in {"issue", "direct_interview"}
             THEN <<[id |-> a.id, title |-> a.title, description |-> description]>> \o rest
             ELSE rest

\* line 88
FetchSucceeded(resp) == resp.status = 200 /\ ~resp.body.empty

\* line 91: raise_for_status raises for 4xx and 5xx
raise_for_status(resp) == resp.status >= 400 /\ resp.status < 600

\* a plausible slip: fall back whenever fewer than two records were extracted
UseFallbackLoose(its) == Len(its) <= 1

\* line 418: if not items
UseFallback(its) == its = <<>>

----------------------------------------------------------------------------
(* Sitemap fallback: fetch_issue_urls_from_sitemap / build_items_from_sitemap *)

\* lastmod strings by their lexicographic rank: 0 is the absent lastmod "",
\* 1 is "2025-08-01", 2 is "2025-09-01"
LastMods == {0, 1, 2}

\* One <url> element: whether its <loc> matches /issue/(\d+)/? , the digits,
\* and the lastmod
SitemapUrls ==
    [loc : {"issue"}, id : Ids, lastmod : LastMods]
    \cup {[loc |-> "other", id |-> 1, lastmod |-> 0]}

SitemapResponses ==
    {[status |-> 503, parses |-> FALSE, urls |-> <<>>],
     [status |-> 200, parses |-> FALSE, urls |-> <<>>]}
    \cup {[status |-> 200, parses |-> TRUE, urls |-> u] : u \in SeqsUpTo(SitemapUrls, MaxSitemap)}

RECURSIVE IssueEntries(_)
IssueEntries(urls) ==
    IF urls = <<>> THEN <<>>
    ELSE LET u == Head(urls)
         IN  IF u.loc = "issue"
             THEN <<[id |-> u.id, lastmod |-> u.lastmod]>> \o IssueEntries(Tail(urls))
             ELSE IssueEntries(Tail(urls))

fetch_issue_urls_from_sitemap(resp) ==
    IF resp.status # 200 \/ ~resp.parses THEN <<>> ELSE IssueEntries(resp.urls)

\* list.sort(key=to_key, reverse=True) is stable: entries with equal lastmod
\* keep their order
RECURSIVE InsertDesc(_, _)
InsertDesc(q, e) ==
    IF q = <<>> THEN <<e>>
    ELSE IF Head(q).lastmod >= e.lastmod THEN <<Head(q)>> \o InsertDesc(Tail(q), e)
    ELSE <<e>> \o q

RECURSIVE SortDesc(_)
SortDesc(q) ==
    IF q = <<>> THEN <<>>
    ELSE InsertDesc(SortDesc(SubSeq(q, 1, Len(q) - 1)), q[Len(q)])

MainMaxFetch == 50

\* lines 262-263, keeping of each selected entry the id that names its url
Select(entries, max_fetch) ==
    LET srt == SortDesc(entries)
        n == IF Len(srt) < max_fetch THEN Len(srt) ELSE max_fetch
    IN  [i \in 1..n |-> srt[i].id]

SiteSuffix == <<32, 124, 32, 12499, 12470, 12473, 12463>>

\* detail pages: the text of <title> and the content of the meta description
Pages ==
    {[title |-> TitleHit \o SiteSuffix, description |-> <<>>],
     [title |-> <<>>, description |-> <<>>]}

DetailResponses ==
    {[kind |-> "error", status |-> 0, page |-> [title |-> <<>>, description |-> <<>>]],
     [kind |-> "resp", status |-> 404, page |-> [title |-> <<>>, description |-> <<>>]]}
    \cup {[kind |-> "resp", status |-> 200, page |-> p] : p \in Pages}

\* re.sub(r"\s*\|\s*.*$", "", title)
StripSiteSuffix(t) ==
    IF \A i \in 1..Len(t) : t[i] # 124 THEN t
    ELSE LET p == CHOOSE i \in 1..Len(t) : t[i] = 124 /\ \A j \in 1..(i - 1) : t[j] # 124
             k == CHOOSE n \in 0..(p - 1) :
                      /\ n = 0 \/ t[n] # 32
                      /\ \A j \in (n + 1)..(p - 1) : t[j] = 32
         IN  SubSeq(t, 1, k)

RECURSIVE Digits(_)
Digits(n) == IF n < 10 THEN <<48 + n>> ELSE Digits(n \div 10) \o <<48 + (n % 10)>>

\* f"Issue {id}"
IssueTitle(id) == <<73, 115, 115, 117, 101, 32>> \o Digits(id)

\* lines 271-319
DetailItem(id, page) ==
    LET stripped == StripSiteSuffix(page.title)
    IN  [id |-> id,
         title |-> IF stripped = <<>> THEN IssueTitle(id) ELSE stripped,
         description |-> page.description]

DetailOutcome(resp) ==
    IF resp.kind = "error" THEN "error"
    ELSE IF resp.status # 200 THEN "non200"
    ELSE "ok"

\* a plausible slip: the delay at the end of the loop body, which continue skips
SleepsAfterUnlessContinue(outcome) == outcome # "non200"

\* lines 320-322: finally runs time.sleep(1) however the try body ended
SleepsAfter(outcome) == outcome \in {"ok", "non200", "error"}

----------------------------------------------------------------------------
(* Notification: build_slack_blocks / post_to_slack *)

RECURSIVE Sections(_)
Sections(ms) ==
    IF ms = <<>> THEN <<>>
    ELSE LET it == Head(ms)
         IN  <<[id |-> it.id,
                title |-> IF it.title = <<>> THEN IssueTitle(it.id) ELSE it.title,
                matched_keywords |-> it.matched_keywords]>> \o Sections(Tail(ms))

build_slack_blocks(ms) == [total |-> Len(ms), sections |-> Sections(ms)]

NoPayload == [total |-> 0, sections |-> <<>>]

PostStatuses == {200, 302, 500}

\* a plausible slip: only client and server errors raise
SlackRaisesErrorsOnly(status) == status >= 400

\* line 409
SlackRaises(status) == status >= 300

\* a plausible slip: the ledger is ignored whatever the toggle says
EffectiveSeenNone(force, s) == {}

\* line 422
EffectiveSeen(force, s) == IF force THEN {} ELSE s

MatchIds(ms) == {ms[i].id : i \in 1..Len(ms)}

Attempts == 3

----------------------------------------------------------------------------
(* main(), step by step *)

NoResp == [status |-> 0, body |-> NoText]

\* the state of a process that has not started yet
Fresh ==
    /\ FORCE_NOTIFY = FALSE
    /\ DRY_RUN = FALSE
    /\ attempt = 0
    /\ lastResp = NoResp
    /\ backoff = <<>>
    /\ selected = <<>>
    /\ idx = 0
    /\ lastOutcome = "none"
    /\ lastEvent = "none"
    /\ matches = <<>>
    /\ payload = NoPayload
    /\ output = "none"
    /\ postStatus = 0
    /\ failedAt = ""
    /\ extractedEmpty = "unknown"
    /\ fallbackCalled = FALSE
    /\ deduped = {}
    /\ loaded = {}
    /\ runPersisted = {}

Init ==
    /\ pc = "start"
    /\ file \in FileStates
    /\ fileAtStart = file
    /\ prevPersisted = {}
    /\ seen = {}
    /\ items = <<>>
    /\ Fresh

envVars == <<FORCE_NOTIFY, DRY_RUN>>
fetchVars == <<attempt, lastResp, backoff>>
sitemapVars == <<selected, idx, lastOutcome>>
notifyVars == <<matches, payload, output, postStatus, deduped>>
ledgerVars == <<file, seen, fileAtStart, loaded, runPersisted, prevPersisted>>

\* an uncaught exception ends the process
Raise(where) ==
    /\ pc' = "failed"
    /\ failedAt' = where

\* line 414
Load ==
    /\ pc = "start"
    /\ seen' = load_seen_ids(file)
    /\ loaded' = load_seen_ids(file)
    /\ fileAtStart' = file
    /\ pc' = "fetch"
    /\ UNCHANGED <<envVars, file, runPersisted, prevPersisted, fetchVars, items,
                   sitemapVars, lastEvent, notifyVars, failedAt, extractedEmpty,
                   fallbackCalled>>

\* fetch_html returned text (its locals are gone): lines 416 and 418
Extracted(body) ==
    /\ attempt' = 0
    /\ lastResp' = NoResp
    /\ backoff' = <<>>
    /\ items' = extract_items(body.anchors)
    /\ extractedEmpty' = IF extract_items(body.anchors) = <<>> THEN "yes" ELSE "no"
    /\ pc' = IF UseFallback(extract_items(body.anchors)) THEN "sitemap" ELSE "match"
    /\ failedAt' = failedAt

\* lines 86-90: one pass of the retry loop
FetchAttempt ==
    /\ pc = "fetch"
    /\ attempt < Attempts
    /\ \E resp \in ListingResponses :
          IF FetchSucceeded(resp)
          THEN /\ Extracted(resp.body)
               /\ lastEvent' = lastEvent
          ELSE /\ attempt' = attempt + 1
               /\ lastResp' = resp
               /\ backoff' = Append(backoff, 1 + attempt)
               /\ lastEvent' = lastEvent
               /\ UNCHANGED <<pc, items, extractedEmpty, failedAt>>
    /\ UNCHANGED <<envVars, ledgerVars, sitemapVars, notifyVars,
                   fallbackCalled>>

\* line 87: requests.get raises (timeout, connection error); nothing catches it
FetchTimeout ==
    /\ pc = "fetch"
    /\ attempt < Attempts
    /\ Raise("listing")
    /\ lastEvent' = lastEvent
    /\ UNCHANGED <<envVars, ledgerVars, fetchVars, items, sitemapVars,
                   notifyVars, extractedEmpty, fallbackCalled>>

\* lines 91-92: the budget is spent
FetchExhausted ==
    /\ pc = "fetch"
    /\ attempt = Attempts
    /\ IF raise_for_status(lastResp)
       THEN /\ Raise("listing")
            /\ UNCHANGED <<items, extractedEmpty, fetchVars>>
       ELSE Extracted(lastResp.body)
    /\ UNCHANGED <<envVars, ledgerVars, sitemapVars, lastEvent,
                   notifyVars, fallbackCalled>>

\* lines 70-83: ENABLE_BROWSER and PLAYWRIGHT_AVAILABLE
FetchBrowser ==
    /\ pc = "fetch"
    /\ attempt = 0
    /\ \E body \in Documents \cup {NoText} :    \* NoText: page.content() is empty, or line 83
          Extracted(body)
    /\ lastEvent' = lastEvent
    /\ UNCHANGED <<envVars, ledgerVars, sitemapVars, notifyVars,
                   fallbackCalled>>

\* line 420 and lines 256-263
SitemapFetch ==
    /\ pc = "sitemap"
    /\ fallbackCalled' = TRUE
    /\ \E resp \in SitemapResponses :
          LET entries == fetch_issue_urls_from_sitemap(resp)
          IN  /\ items' = <<>>
              /\ selected' = Select(entries, MainMaxFetch)
              /\ IF entries = <<>>
                 THEN pc' = "match" /\ idx' = 0 /\ lastEvent' = "none"
                 ELSE pc' = "detail_fetch" /\ idx' = 1 /\ lastEvent' = "sitemap"
    /\ UNCHANGED <<envVars, ledgerVars, fetchVars, lastOutcome,
                   notifyVars, failedAt, extractedEmpty>>

\* line 228: requests.get raises; nothing catches it
SitemapError ==
    /\ pc = "sitemap"
    /\ fallbackCalled' = TRUE
    /\ lastEvent' = "sitemap"
    /\ Raise("sitemap")
    /\ UNCHANGED <<envVars, ledgerVars, fetchVars, items, sitemapVars,
                   notifyVars, extractedEmpty>>

\* lines 265-319: the request and the try body for selected[idx]
DetailFetch ==
    /\ pc = "detail_fetch"
    /\ \E resp \in DetailResponses :
          /\ lastOutcome' = DetailOutcome(resp)
          /\ items' = IF DetailOutcome(resp) = "ok"
                      THEN Append(items, DetailItem(selected[idx], resp.page))
                      ELSE items
    /\ lastEvent' = "detail"
    /\ pc' = "detail_finally"
    /\ UNCHANGED <<envVars, ledgerVars, fetchVars, selected, idx, notifyVars,
                   failedAt, extractedEmpty, fallbackCalled>>

\* lines 320-322, and what follows the finally clause: the exception goes
\* on, or the loop takes the next entry, or line 323 returns items (and the
\* locals are gone)
DetailFinally ==
    /\ pc = "detail_finally"
    /\ IF lastOutcome = "error"
       THEN /\ Raise("detail")
            /\ lastEvent' = IF SleepsAfter(lastOutcome) THEN "crawl_delay" ELSE lastEvent
            /\ UNCHANGED sitemapVars
       ELSE /\ failedAt' = failedAt
            /\ IF idx < Len(selected)
               THEN /\ pc' = "detail_fetch"
                    /\ idx' = idx + 1
                    /\ lastEvent' = IF SleepsAfter(lastOutcome) THEN "crawl_delay" ELSE lastEvent
                    /\ UNCHANGED <<selected, lastOutcome>>
               ELSE /\ pc' = "match"
                    /\ idx' = 0
                    /\ selected' = <<>>
                    /\ lastOutcome' = "none"
                    /\ lastEvent' = "none"
    /\ UNCHANGED <<envVars, ledgerVars, fetchVars, items, notifyVars,
                   extractedEmpty, fallbackCalled>>

\* lines 422-426 and 437-438; items is not read after line 423
Match ==
    /\ pc = "match"
    /\ FORCE_NOTIFY' \in BOOLEAN
    /\ matches' = filter_new_and_match(items, EffectiveSeen(FORCE_NOTIFY', seen))
    /\ deduped' = {items[i].id : i \in {j \in 1..Len(items) :
                      /\ items[j].id \in EffectiveSeen(FORCE_NOTIFY', seen)
                      /\ matched_of(items[j]) # <<>>}}
    /\ items' = <<>>
    /\ pc' = IF matches' # <<>> THEN "notify" ELSE "done"
    /\ UNCHANGED <<DRY_RUN, ledgerVars, fetchVars, sitemapVars,
                   lastEvent, payload, output, postStatus, failedAt, extractedEmpty,
                   fallbackCalled>>

notifyFrame ==
    <<FORCE_NOTIFY, deduped, ledgerVars, fetchVars, items, sitemapVars, lastEvent, matches,
      extractedEmpty, fallbackCalled>>

\* lines 427-429, and lines 404-407 when SLACK_WEBHOOK_URL is not set
NotifyPrint ==
    /\ pc = "notify"
    /\ payload' = build_slack_blocks(matches)
    /\ DRY_RUN' \in BOOLEAN    \* when FALSE: post_to_slack without a webhook url
    /\ output' = "printed"
    /\ pc' = "persist"
    /\ UNCHANGED <<postStatus, failedAt>>
    /\ UNCHANGED notifyFrame

\* lines 427, 431 and 408-410
NotifyPost ==
    /\ pc = "notify"
    /\ DRY_RUN' = FALSE
    /\ payload' = build_slack_blocks(matches)
    /\ \E status \in PostStatuses :
          /\ postStatus' = status
          /\ IF SlackRaises(status)
             THEN Raise("notify") /\ output' = output
             ELSE pc' = "persist" /\ output' = "posted" /\ failedAt' = failedAt
    /\ UNCHANGED notifyFrame

\* line 408: requests.post raises; nothing catches it
NotifyError ==
    /\ pc = "notify"
    /\ DRY_RUN' = FALSE
    /\ payload' = build_slack_blocks(matches)
    /\ Raise("notify")
    /\ UNCHANGED <<output, postStatus>>
    /\ UNCHANGED notifyFrame

\* lines 432-436
Persist ==
    /\ pc = "persist"
    /\ IF ~FORCE_NOTIFY
       THEN /\ seen' = seen \cup MatchIds(matches)
            /\ file' = save_seen_ids(seen \cup MatchIds(matches))
            /\ runPersisted' = MatchIds(matches)
       ELSE UNCHANGED <<seen, file, runPersisted>>
    /\ pc' = "done"
    /\ UNCHANGED <<envVars, fileAtStart, loaded, prevPersisted, fetchVars, items,
                   sitemapVars, lastEvent, notifyVars, failedAt, extractedEmpty,
                   fallbackCalled>>

\* the process has ended; the scheduler starts the next one
NextRun ==
    /\ pc \in {"done", "failed"}
    /\ pc' = "start"
    /\ prevPersisted' = runPersisted
    /\ fileAtStart' = file
    /\ file' = file
    /\ FORCE_NOTIFY' = FALSE
    /\ DRY_RUN' = FALSE
    /\ seen' = {}
    /\ attempt' = 0
    /\ lastResp' = NoResp
    /\ backoff' = <<>>
    /\ items' = <<>>
    /\ selected' = <<>>
    /\ idx' = 0
    /\ lastOutcome' = "none"
    /\ lastEvent' = "none"
    /\ matches' = <<>>
    /\ payload' = NoPayload
    /\ output' = "none"
    /\ postStatus' = 0
    /\ failedAt' = ""
    /\ extractedEmpty' = "unknown"
    /\ fallbackCalled' = FALSE
    /\ deduped' = {}
    /\ loaded' = {}
    /\ runPersisted' = {}

Next ==
    \/ Load
    \/ FetchAttempt
    \/ FetchTimeout
    \/ FetchExhausted
    \/ FetchBrowser
    \/ SitemapFetch
    \/ SitemapError
    \/ DetailFetch
    \/ DetailFinally
    \/ Match
    \/ NotifyPrint
    \/ NotifyPost
    \/ NotifyError
    \/ Persist
    \/ NextRun

Spec == Init /\ [][Next]_vars

----------------------------------------------------------------------------
(* filter_new_and_match on its own: the inputs are drawn in the initial    *)
(* state and one step applies the function.                                *)

\* pieces of title text: "", "SEO", "seo" U+5BFE U+7B56, fullwidth "PR",
\* U+65B0 U+898F, U+4E8B U+696D, the katakana "ri", the katakana "branding",
\* and a title without keyword
Frags ==
    {<<>>,
     <<83, 69, 79>>,
     <<115, 101, 111, 23550, 31574>>,
     <<65328, 65330>>,
     <<26032, 35215>>,
     <<20107, 26989>>,
     <<12522>>,
     <<12502, 12521, 12531, 12487, 12451, 12531, 12464>>,
     TitleMiss}

\* descriptions: "", U+4E8B U+696D, "Pr"
Descs == {<<>>, <<20107, 26989>>, <<80, 114>>}

SingleItems ==
    [id : Ids, title : {f \o g : f \in Frags, g \in Frags}, description : Descs]

PairItems == [id : Ids, title : Frags, description : {<<>>}]

MatcherInputs ==
    {<<x>> : x \in SingleItems} \cup {<<x, y>> : x \in PairItems, y \in PairItems}

MInit ==
    /\ pc = "m_ready"
    /\ items \in MatcherInputs
    /\ seen \in SUBSET Ids
    /\ file = [state |-> "absent", ids |-> {}]
    /\ fileAtStart = file
    /\ prevPersisted = {}
    /\ Fresh

MApply ==
    /\ pc = "m_ready"
    /\ matches' = filter_new_and_match(items, seen)
    /\ pc' = "m_done"
    /\ UNCHANGED <<envVars, ledgerVars, fetchVars, items, sitemapVars, lastEvent,
                   payload, output, postStatus, deduped, failedAt, extractedEmpty,
                   fallbackCalled>>

MNext == MApply

SpecMatcher == MInit /\ [][MNext]_vars

----------------------------------------------------------------------------
(* Properties *)

MatchDone == pc \in {"notify", "persist", "done", "failed"}

\* C1: with the force-notify toggle off, no item whose id was in the ledger
\* loaded at the start of the run is among the run's matches, and so no item
\* that the previous run notified and persisted is among them either.
C1_Dedup ==
    (MatchDone /\ ~FORCE_NOTIFY) =>
        \A i \in 1..Len(matches) :
            /\ matches[i].id \notin loaded
            /\ matches[i].id \notin prevPersisted

\* a second run over a listing that still shows the item the previous run
\* notified and persisted: the item is dropped and nothing matches
C1_Witness ==
    /\ pc = "done"
    /\ ~FORCE_NOTIFY
    /\ prevPersisted # {}
    /\ prevPersisted \cap deduped # {}
    /\ matches = <<>>

NonSuccess(status) == status # 0 /\ ~(status >= 200 /\ status <= 299)

\* C2: when the webhook answers with a non-success status, the run has ended
\* in failure and the ledger file is exactly what it was when the run began.
C2_DeliveryFailure ==
    NonSuccess(postStatus) => (pc = "failed" /\ failedAt = "notify" /\ file = fileAtStart)

C2_Witness ==
    /\ postStatus = 302
    /\ pc = "failed"
    /\ ~FORCE_NOTIFY
    /\ matches # <<>>
    /\ MatchIds(matches) \cap fileAtStart.ids = {}

\* C3: a dry-mode run that has matches leaves the persisted identifier set
\* as it was before the run.
C3_DryRunDoesNotPersist ==
    (pc = "done" /\ DRY_RUN /\ matches # <<>>) => file.ids = fileAtStart.ids

\* C4: the identifiers persisted after a run include every identifier that
\* was persisted before it, also when the load fell back to the empty ledger.
C4_LedgerOnlyGrows ==
    (pc \in {"done", "failed"}) => fileAtStart.ids \subseteq file.ids

\* C5: the sitemap fallback is invoked exactly when extract_items returned
\* an empty list; after a non-empty extraction no sitemap or detail request
\* is made.
C5_FallbackIff ==
    /\ fallbackCalled => extractedEmpty = "yes"
    /\ (extractedEmpty = "yes" /\ pc # "sitemap") => fallbackCalled
    /\ extractedEmpty = "no" =>
          /\ ~fallbackCalled
          /\ pc \notin {"sitemap", "detail_fetch", "detail_finally"}
          /\ lastEvent = "none"

C5_Witness ==
    /\ pc = "match"
    /\ extractedEmpty = "yes"
    /\ fallbackCalled
    /\ items # <<>>

\* C6: once the attempt budget of the listing fetch is spent without a
\* success, the next step of the run is its failure (no extraction, no
\* fallback, no delivery, no ledger write).
C6_ExhaustedIsFatal ==
    [][(pc = "fetch" /\ attempt = Attempts) => pc' = "failed"]_vars

\* C7: a detail fetch that fails with a transport error only leaves that
\* item out: the records collected so far are kept and the batch goes on to
\* the next entry, or returns when there is none.
C7_FailureSkipsOneItem ==
    [][(pc = "detail_finally" /\ lastOutcome = "error") =>
          /\ items' = items
          /\ IF idx < Len(selected)
             THEN pc' = "detail_fetch" /\ idx' = idx + 1
             ELSE pc' = "match"]_vars

\* C8: every detail fetch but the first starts right after a crawl delay,
\* however the fetch before it ended.
C8_DelayBetweenFetches ==
    (pc = "detail_fetch" /\ idx > 1) => lastEvent = "crawl_delay"

C8_Witness ==
    /\ pc = "detail_fetch"
    /\ idx > 1
    /\ lastOutcome = "non200"

IsSubstring(k, t) ==
    \E i \in 1..(Len(t) - Len(k) + 1) : SubSeq(t, i, i + Len(k) - 1) = k

KeywordHits(it) ==
    {n \in 1..Len(KEYWORDS) :
        IsSubstring(normalize_text(KEYWORDS[n]),
                    normalize_text(it.title \o <<32>> \o it.description))}

\* mk lists, in increasing position and so without duplicates, exactly the
\* canonical keywords at the positions hits
IsDeclaredOrderOf(mk, hits) ==
    \E pos \in [1..Len(mk) -> 1..Len(KEYWORDS)] :
        /\ \A a \in 1..Len(mk) : mk[a] = KEYWORDS[pos[a]]
        /\ \A a \in 1..Len(mk), b \in 1..Len(mk) : a < b => pos[a] < pos[b]
        /\ {pos[a] : a \in 1..Len(mk)} = hits

Qualifies(it, seen_ids) == it.id \notin seen_ids /\ KeywordHits(it) # {}

\* C9: the result holds, in input order, exactly the unseen items that hit
\* at least one keyword, each with the canonical keywords it hits, in
\* declaration order and without duplicates.
C9_MatchedKeywords ==
    pc = "m_done" =>
        LET keep(it) == Qualifies(it, seen)
            kept == SelectSeq(items, keep)
        IN  /\ Len(matches) = Len(kept)
            /\ \A i \in 1..Len(kept) :
                  /\ matches[i].id = kept[i].id
                  /\ matches[i].title = kept[i].title
                  /\ matches[i].description = kept[i].description
                  /\ Cardinality(KeywordHits(kept[i])) = Len(matches[i].matched_keywords)
                  /\ IsDeclaredOrderOf(matches[i].matched_keywords, KeywordHits(kept[i]))

\* fullwidth "PR" before "SEO" in the title: found in that order, shown in
\* declaration order
C9_Witness ==
    /\ pc = "m_done"
    /\ Len(items) = 1
    /\ items[1].title = <<65328, 65330, 83, 69, 79>>
    /\ Len(matches) = 1
    /\ matches[1].matched_keywords = <<KEYWORDS[1], KEYWORDS[19]>>

\* C10: no id occurs twice among the matches of a run, nor in the composed
\* notification.
C10_OncePerId ==
    /\ \A i \in 1..Len(matches), j \in 1..Len(matches) :
          matches[i].id = matches[j].id => i = j
    /\ \A i \in 1..Len(payload.sections), j \in 1..Len(payload.sections) :
          payload.sections[i].id = payload.sections[j].id => i = j

====
